---- MODULE Spec2Model ----
(***************************************************************************)
(* GalleryViewer (components/GalleryViewer.tsx): the unified navigation    *)
(* controller.  The component receives isOpen, images, currentIndex and    *)
(* the callbacks onClose / onPrevious / onNext / onIndexChange as props    *)
(* and turns wheel, touch, keyboard and indicator-dot events into          *)
(* callback invocations.  The owner of the component holds currentIndex    *)
(* and isOpen and updates them when a callback is invoked.                 *)
(*                                                                         *)
(* ZoomableMapContainer, ZoomableOverviewMap and ZoomableIslandMap: the    *)
(* three map components.  Each computes a transform configuration from the *)
(* device tier and shows a usage hint driven by a timer;                   *)
(* ZoomableMapContainer also measures its container and image elements     *)
(* and re-measures them from a ResizeObserver.                             *)
(***************************************************************************)
EXTENDS Integers, Sequences, FiniteSets, TLC

\* ------------------------------------------------------------------ bounds
MaxItems == 3          \* images.length ranges over 0..MaxItems
MaxWheel == 1          \* WheelEvent.deltaY ranges over -MaxWheel..MaxWheel
MaxDelta == 7          \* delta of a direct changeIndexBy call: -MaxDelta..MaxDelta

\* --------------------------------------------------------------- constants
SwipeThreshold == 50   \* Math.abs(diff) > 50
NoTouch == -1          \* touchStartX.current == null

VARIABLES
    isOpen,            \* prop isOpen (owned by the owner)
    itemCount,         \* images.length
    currentIndex,      \* prop currentIndex (owned by the owner)
    shownIndex,        \* currentIndex of the render the bound handlers close over
    hasOnIndexChange,  \* prop onIndexChange is supplied
    hasOnPrevious,     \* prop onPrevious is supplied
    hasOnNext,         \* prop onNext is supplied
    touchStartX,       \* touchStartX.current (NoTouch for null)
    touchSteps,        \* changeIndexBy calls issued since the last touchstart
    lastEvent,         \* the event handled last, with the state it found
    prevEvent,         \* changeIndexBy delta and index of the event before it
    calls,             \* callbacks invoked by the handler of lastEvent
    viewerMounted,     \* the GalleryViewer instance is mounted
    keyListeners,      \* keydown listeners of the viewer registered on document
    wheelListeners,    \* wheel listeners of the viewer registered on its container
    \* ---- map component instance
    comp,              \* which of the three map components the instance is
    tier,              \* device tier reported by useDevice()
    mapProps,          \* enableZoom, enablePan, minScale, maxScale, initialScale
    mapConfig,         \* prop config (scale, baseWidth and the scale bounds)
    mapState,          \* "unmounted", "mounted", "crashed" or "disposed"
    showHint,          \* state showHint
    timerPending,      \* the setTimeout of the hint effect is pending
    timerFired,        \* that timer has fired since the hint effect last ran
    actual,            \* rects of the container and image elements on screen
    containerWidth,    \* state containerWidth
    imageLayout,       \* state imageLayout
    remounted,         \* MapContent was re-rendered after the observer effect ran
    roObserving,       \* the ResizeObserver is connected
    roLast,            \* sizes the ResizeObserver reported last
    renderPending,     \* a state update is waiting for its re-render
    measured,          \* rects read by the last update() on attached elements
    lastEmit           \* whether the last update() changed the stored geometry

viewerVars == <<isOpen, itemCount, currentIndex, shownIndex, hasOnIndexChange,
                hasOnPrevious, hasOnNext, touchStartX, touchSteps, lastEvent,
                prevEvent, calls, viewerMounted, keyListeners, wheelListeners>>

mapVars == <<comp, tier, mapProps, mapConfig, mapState, showHint, timerPending,
             timerFired, actual, containerWidth, imageLayout, remounted,
             roObserving, roLast, renderPending, measured, lastEmit>>

vars == <<viewerVars, mapVars>>

props == <<itemCount, hasOnIndexChange, hasOnPrevious, hasOnNext>>

\* ----------------------------------------------------------- input domains
WheelDeltas == (0 - MaxWheel)..MaxWheel
TouchXs == {0, SwipeThreshold - 20, SwipeThreshold, SwipeThreshold + 1,
            2 * SwipeThreshold + 2}
Keys == {"ArrowLeft", "ArrowRight", "Escape", "Enter"}
Indices(len) == IF len = 0 THEN {0} ELSE 0..(len - 1)

\* ------------------------------------------------------------- arithmetic
Abs(x) == IF x < 0 THEN 0 - x ELSE x

\* JavaScript a % b for b > 0: the result takes the sign of the dividend
JsRem(a, b) == IF a >= 0 THEN a % b ELSE 0 - ((0 - a) % b)

\* the mathematical residue of a modulo b, in 0..b-1
Residue(a, b) == ((a % b) + b) % b

Clamp(x, lo, hi) == IF x < lo THEN lo ELSE IF x > hi THEN hi ELSE x

\* ------------------------------------------------------------ changeIndexBy
Call(name, a) == [cb |-> name, arg |-> a]

\* const nextIndex = (currentIndex + delta + images.length) % images.length
NextIndexNoWrap(cur, delta, len) == cur + delta
NextIndexNoOffset(cur, delta, len) == JsRem(cur + delta, len)
NextIndex(cur, delta, len) == JsRem(cur + delta + len, len)

\* the callbacks changeIndexBy(delta) invokes
ChangeIndexByBoth(cur, delta, len, ic, prev, next) ==
    IF len = 0 THEN <<>>
    ELSE IF ic THEN <<Call("onIndexChange", NextIndex(cur, delta, len))>>
    ELSE (IF prev THEN <<Call("onPrevious", 0)>> ELSE <<>>)
         \o (IF next THEN <<Call("onNext", 0)>> ELSE <<>>)
\* without the empty-sequence guard the reported index is NaN (0 stands for it)
ChangeIndexByNoGuard(cur, delta, len, ic, prev, next) ==
    IF ic THEN <<Call("onIndexChange",
                      IF len = 0 THEN 0 ELSE NextIndex(cur, delta, len))>>
    ELSE IF len = 0 THEN <<>>
    ELSE IF delta < 0 /\ prev THEN <<Call("onPrevious", 0)>>
    ELSE IF delta > 0 /\ next THEN <<Call("onNext", 0)>>
    ELSE <<>>
ChangeIndexBy(cur, delta, len, ic, prev, next) ==
    IF len = 0 THEN <<>>
    ELSE IF ic THEN <<Call("onIndexChange", NextIndex(cur, delta, len))>>
    ELSE IF delta < 0 /\ prev THEN <<Call("onPrevious", 0)>>
    ELSE IF delta > 0 /\ next THEN <<Call("onNext", 0)>>
    ELSE <<>>

\* ------------------------------------------------------------------ render
\* if (!isOpen || images.length === 0) return null
Rendered(open, len) == open /\ len # 0

\* {images.length > 1 && <IndicatorBar> ...}
DotsRendered(open, len) == Rendered(open, len) /\ len > 1

\* the wheel listener is attached when the container exists and length > 1
WheelBound(open, len) == Rendered(open, len) /\ ~(len <= 1)

\* ------------------------------------------------------------------- owner
\* the owner's reaction to the callbacks of one event
RECURSIVE OwnerIndex(_, _, _)
OwnerIndex(cur, cs, len) ==
    IF cs = <<>> THEN cur
    ELSE LET c == Head(cs)
             nxt == IF c.cb = "onIndexChange" THEN c.arg
                    ELSE IF c.cb = "onPrevious" THEN Residue(cur - 1, len)
                    ELSE IF c.cb = "onNext" THEN Residue(cur + 1, len)
                    ELSE cur
         IN  OwnerIndex(nxt, Tail(cs), len)

OwnerOpen(open, cs) == open /\ \A i \in 1..Len(cs) : cs[i].cb # "onClose"

\* ------------------------------------------------------------------ events
Event(kind, a, k, d) ==
    [kind |-> kind, arg |-> a, key |-> k, step |-> d,
     pre |-> currentIndex, preOpen |-> isOpen, preStart |-> touchStartX]

NoEvent == [kind |-> "none", arg |-> 0, key |-> "", step |-> 0,
            pre |-> 0, preOpen |-> FALSE, preStart |-> NoTouch]

NoStep == [step |-> 0, pre |-> 0]

\* ------------------------------------------------------- listener effects
\* return () => document.removeEventListener('keydown', keyHandler)
KeyCleanupMissing(n) == 0
KeyCleanup(n) == IF n > 0 THEN 1 ELSE 0

\* return () => el.removeEventListener('wheel', handleWheel), returned only
\* by a run of the effect that added the listener
WheelCleanup(n) == IF n > 0 THEN 1 ELSE 0

\* both effects depend on isOpen and changeIndexBy (hence on currentIndex);
\* when a dependency changed, the old run is cleaned up and the effect re-run
ListenerEffects ==
    IF isOpen' # isOpen \/ shownIndex' # shownIndex
    THEN /\ keyListeners' = keyListeners - KeyCleanup(keyListeners) + 1
         /\ wheelListeners' = wheelListeners - WheelCleanup(wheelListeners)
               + (IF WheelBound(isOpen', itemCount) THEN 1 ELSE 0)
    ELSE UNCHANGED <<keyListeners, wheelListeners>>

\* bookkeeping shared by all handlers: d is the delta handed to changeIndexBy
\* (0 when the handler does not call it), cs the callbacks it invoked;
\* rerender: the component is re-rendered with the owner's new props, and its
\* effects re-run, before the next event arrives
HandledOn(kind, a, k, d, cs, rerender) ==
    /\ viewerMounted
    /\ lastEvent' = Event(kind, a, k, d)
    /\ prevEvent' = [step |-> lastEvent.step, pre |-> lastEvent.pre]
    /\ calls' = cs
    /\ currentIndex' = OwnerIndex(currentIndex, cs, itemCount)
    /\ isOpen' = OwnerOpen(isOpen, cs)
    /\ shownIndex' = IF rerender \/ isOpen' # isOpen THEN currentIndex'
                                                     ELSE shownIndex
    /\ ListenerEffects
    /\ UNCHANGED <<props, viewerMounted, mapVars>>

Handled(kind, a, k, d, cs) == HandledOn(kind, a, k, d, cs, TRUE)

\* changeIndexBy closes over the currentIndex of the render that created it
Steps(d) == ChangeIndexBy(shownIndex, d, itemCount,
                          hasOnIndexChange, hasOnPrevious, hasOnNext)

\* ----------------------------------------------------------- map: inputs
Comps == {"ZoomableMapContainer", "ZoomableOverviewMap", "ZoomableIslandMap"}
Tiers == {"mobile", "tablet", "desktop"}

\* isMobile || isTablet
Touch(t) == t = "mobile" \/ t = "tablet"

\* caller props; the scales are in tenths (defaults 0.5, 3, 1)
MapPropSets ==
    [enableZoom : BOOLEAN, enablePan : BOOLEAN,
     minScale : {5}, maxScale : {30, 40}, initialScale : {10}]

\* prop config: scale in tenths, baseWidth in pixels, scale bounds in tenths
MapConfigs ==
    {[scale10 |-> 10, baseWidth |-> 200, min10 |-> 5, max10 |-> 15],
     [scale10 |-> 8, baseWidth |-> 500, min10 |-> 3, max10 |-> 20]}

Rect(l, t, w, h) == [left |-> l, top |-> t, width |-> w, height |-> h]
ZeroRect == Rect(0, 0, 0, 0)

\* getBoundingClientRect() of the container and of the image on screen
Geoms ==
    {[c |-> Rect(40, 20, 220, 110), i |-> Rect(50, 25, 200, 100)],
     [c |-> Rect(40, 20, 220, 150), i |-> Rect(50, 25, 200, 100)],
     [c |-> Rect(0, 0, 400, 200), i |-> Rect(0, 0, 400, 200)],
     [c |-> Rect(10, 10, 80, 40), i |-> Rect(10, 10, 80, 40)]}

FirstGeom == [c |-> Rect(40, 20, 220, 110), i |-> Rect(50, 25, 200, 100)]
NoGeom == [c |-> ZeroRect, i |-> ZeroRect]

\* useState({ width: 0, height: 0, offsetLeft: 0, offsetTop: 0 })
ZeroLayout == [width |-> 0, height |-> 0, offsetLeft |-> 0, offsetTop |-> 0]

\* fractions <<numerator, denominator>> with a positive denominator
FracLeq(a, b) == a[1] * b[2] <= b[1] * a[2]
FracDiv(a, b) == <<a[1] * b[2], a[2] * b[1]>>

\* ------------------------------------------------------ map: pure functions
\* transformConfig of each component
MapContainerTransformConfig(touch, p) ==
    [minScale |-> IF touch THEN 8 ELSE p.minScale,
     maxScale |-> IF touch THEN 40 ELSE p.maxScale,
     initialScale |-> IF touch THEN 9 ELSE p.initialScale,
     wheelDisabled |-> touch, pinchDisabled |-> FALSE, panDisabled |-> FALSE,
     doubleClickDisabled |-> FALSE, doubleClickStep |-> 7]

OverviewTransformConfig(touch, p) ==
    [minScale |-> IF touch THEN 8 ELSE p.minScale,
     maxScale |-> IF touch THEN 40 ELSE p.maxScale,
     initialScale |-> IF touch THEN 9 ELSE p.initialScale,
     wheelDisabled |-> touch, pinchDisabled |-> FALSE, panDisabled |-> FALSE,
     doubleClickDisabled |-> FALSE, doubleClickStep |-> 7]

IslandTransformConfigWheelOn(touch, p) ==
    [minScale |-> IF touch THEN 8 ELSE p.minScale,
     maxScale |-> IF touch THEN 40 ELSE p.maxScale,
     initialScale |-> IF touch THEN 9 ELSE p.initialScale,
     wheelDisabled |-> FALSE, pinchDisabled |-> FALSE, panDisabled |-> FALSE,
     doubleClickDisabled |-> FALSE, doubleClickStep |-> 7]
IslandTransformConfig(touch, p) ==
    [minScale |-> IF touch THEN 8 ELSE p.minScale,
     maxScale |-> IF touch THEN 40 ELSE p.maxScale,
     initialScale |-> IF touch THEN 9 ELSE p.initialScale,
     wheelDisabled |-> touch, pinchDisabled |-> FALSE, panDisabled |-> FALSE,
     doubleClickDisabled |-> FALSE, doubleClickStep |-> 7]

TransformConfigOf(c, touch, p) ==
    IF c = "ZoomableMapContainer" THEN MapContainerTransformConfig(touch, p)
    ELSE IF c = "ZoomableOverviewMap" THEN OverviewTransformConfig(touch, p)
    ELSE IslandTransformConfig(touch, p)

\* ZoomableMapContainer uses <AnimatePresence> in its touch-tier branch but
\* imports only { motion } from 'framer-motion': evaluating that branch throws
\* a ReferenceError
RenderThrows(c, touch, p) ==
    c = "ZoomableMapContainer" /\ touch /\ p.enableZoom

\* the hint element is rendered in the touch-tier branch only
HintVisible(touch, p, hint) == touch /\ p.enableZoom /\ hint

\* utils/mapConfig calculateResponsiveScale(containerWidth, baseWidth, bounds)
CalculateResponsiveScale(w, b, cfg) ==
    IF w[1] <= 0 \/ b[1] <= 0 THEN <<1, 1>>
    ELSE LET r == FracDiv(w, b)
             lo == <<cfg.min10, 10>>
             hi == <<cfg.max10, 10>>
         IN  IF FracLeq(r, lo) THEN lo ELSE IF FracLeq(hi, r) THEN hi ELSE r

\* const baseWidth = config.scale * config.baseWidth;
\* const scale = calculateResponsiveScale(containerWidth, baseWidth, config)
ResponsiveScaleSwapped(w, cfg) ==
    CalculateResponsiveScale(<<cfg.scale10 * cfg.baseWidth, 10>>, <<w, 1>>, cfg)
ResponsiveScale(w, cfg) ==
    CalculateResponsiveScale(<<w, 1>>, <<cfg.scale10 * cfg.baseWidth, 10>>, cfg)

\* setImageLayout({ width, height, offsetLeft, offsetTop }) from the two rects
ImageLayoutOfAbsolute(cRect, iRect) ==
    [width |-> iRect.width, height |-> iRect.height,
     offsetLeft |-> iRect.left, offsetTop |-> iRect.top]
ImageLayoutOf(cRect, iRect) ==
    [width |-> iRect.width, height |-> iRect.height,
     offsetLeft |-> iRect.left - cRect.left,
     offsetTop |-> iRect.top - cRect.top]

\* MapIcon: anchor of an icon at (x%, y%) of the image, in hundredths of a pixel
Icons == {[x |-> 0, y |-> 0], [x |-> 100, y |-> 100], [x |-> 30, y |-> 70]}
IconPixel(icon, layout) ==
    [x100 |-> layout.offsetLeft * 100 + icon.x * layout.width,
     y100 |-> layout.offsetTop * 100 + icon.y * layout.height]

\* ------------------------------------------------------------ map: state
\* no map component is rendered
NoMap ==
    /\ comp = "ZoomableIslandMap"
    /\ tier = "desktop"
    /\ mapProps = [enableZoom |-> TRUE, enablePan |-> TRUE, minScale |-> 5,
                   maxScale |-> 30, initialScale |-> 10]
    /\ mapConfig = [scale10 |-> 10, baseWidth |-> 200, min10 |-> 5,
                    max10 |-> 15]
    /\ mapState = "unmounted"
    /\ showHint = FALSE
    /\ timerPending = FALSE
    /\ timerFired = FALSE
    /\ actual = FirstGeom
    /\ containerWidth = 0
    /\ imageLayout = ZeroLayout
    /\ remounted = FALSE
    /\ roObserving = FALSE
    /\ roLast = <<0, 0, 0, 0>>
    /\ renderPending = FALSE
    /\ measured = NoGeom
    /\ lastEmit = "none"

TypeOK ==
    /\ isOpen \in BOOLEAN
    /\ itemCount \in 0..MaxItems
    /\ currentIndex \in Int
    /\ touchStartX \in TouchXs \cup {NoTouch}

\* the viewer right after it was mounted and its effects ran
ViewerInit ==
    /\ isOpen \in BOOLEAN
    /\ itemCount \in 0..MaxItems
    /\ currentIndex \in Indices(itemCount)
    /\ shownIndex = currentIndex
    /\ hasOnIndexChange \in BOOLEAN
    /\ hasOnPrevious \in BOOLEAN
    /\ hasOnNext \in BOOLEAN
    /\ touchStartX = NoTouch
    /\ touchSteps = 0
    /\ lastEvent = NoEvent
    /\ prevEvent = NoStep
    /\ calls = <<>>
    /\ viewerMounted = TRUE
    /\ keyListeners = 1
    /\ wheelListeners = IF WheelBound(isOpen, itemCount) THEN 1 ELSE 0

Init == ViewerInit /\ NoMap

\* handleWheel
WheelActive(open, len) == ~(~open \/ len <= 1)
WheelStep(deltaY) == IF deltaY > 0 THEN 1 ELSE -1

WheelOn(deltaY, rerender) ==
    LET d == IF WheelBound(isOpen, itemCount) /\ WheelActive(isOpen, itemCount)
             THEN WheelStep(deltaY) ELSE 0
    IN  /\ HandledOn("wheel", deltaY, "", d,
                     IF d = 0 THEN <<>> ELSE Steps(d), rerender)
        /\ UNCHANGED <<touchStartX, touchSteps>>

Wheel(deltaY) == WheelOn(deltaY, TRUE)

\* onTouchStart
TouchStartOn(x, rerender) ==
    /\ Rendered(isOpen, itemCount)
    /\ touchStartX' = x
    /\ touchSteps' = 0
    /\ HandledOn("touchstart", x, "", 0, <<>>, rerender)

TouchStart(x) == TouchStartOn(x, TRUE)

\* onTouchMove
SwipeTriggeredAtThreshold(diff) == Abs(diff) >= SwipeThreshold
SwipeTriggered(diff) == Abs(diff) > SwipeThreshold
SwipeStep(diff) == IF diff > 0 THEN 1 ELSE -1
StartAfterSwipeKept(start) == start
StartAfterSwipe(start) == NoTouch

TouchMoveOn(x, rerender) ==
    /\ Rendered(isOpen, itemCount)
    /\ LET diff == touchStartX - x
           fired == touchStartX # NoTouch /\ SwipeTriggered(diff)
           d == IF fired THEN SwipeStep(diff) ELSE 0
       IN  /\ touchStartX' = IF fired THEN StartAfterSwipe(touchStartX)
                                       ELSE touchStartX
           /\ touchSteps' = IF fired /\ touchSteps < 2 THEN touchSteps + 1
                                                       ELSE touchSteps
           /\ HandledOn("touchmove", x, "", d,
                        IF fired THEN Steps(d) ELSE <<>>, rerender)

TouchMove(x) == TouchMoveOn(x, TRUE)

\* onTouchEnd
TouchEndOn(rerender) ==
    /\ Rendered(isOpen, itemCount)
    /\ touchStartX' = NoTouch
    /\ UNCHANGED touchSteps
    /\ HandledOn("touchend", 0, "", 0, <<>>, rerender)

TouchEnd == TouchEndOn(TRUE)

\* keyHandler
KeyStepBothRight(key) ==
    IF key = "ArrowLeft" THEN 1 ELSE IF key = "ArrowRight" THEN 1 ELSE 0
KeyStep(key) ==
    IF key = "ArrowLeft" THEN -1 ELSE IF key = "ArrowRight" THEN 1 ELSE 0

KeyDownOn(key, rerender) ==
    LET d == IF isOpen THEN KeyStep(key) ELSE 0
        cs == IF ~isOpen THEN <<>>
              ELSE IF d # 0 THEN Steps(d)
              ELSE IF key = "Escape" THEN <<Call("onClose", 0)>>
              ELSE <<>>
    IN  /\ HandledOn("keydown", 0, key, d, cs, rerender)
        /\ UNCHANGED <<touchStartX, touchSteps>>

KeyDown(key) == KeyDownOn(key, TRUE)

\* IndicatorDot onClick
DotCallsOffByOne(idx, cur, len, ic, prev, next) ==
    IF ic THEN <<Call("onIndexChange", idx + 1)>>
    ELSE IF idx # cur
    THEN ChangeIndexBy(cur, IF idx > cur THEN 1 ELSE -1, len, ic, prev, next)
    ELSE <<>>
DotCalls(idx, cur, len, ic, prev, next) ==
    IF ic THEN <<Call("onIndexChange", idx)>>
    ELSE IF idx # cur
    THEN ChangeIndexBy(cur, IF idx > cur THEN 1 ELSE -1, len, ic, prev, next)
    ELSE <<>>

DotClickOn(idx, rerender) ==
    /\ DotsRendered(isOpen, itemCount)
    /\ LET d == IF hasOnIndexChange \/ idx = shownIndex THEN 0
                ELSE IF idx > shownIndex THEN 1 ELSE -1
       IN  HandledOn("dot", idx, "", d,
                     DotCalls(idx, shownIndex, itemCount,
                              hasOnIndexChange, hasOnPrevious, hasOnNext),
                     rerender)
    /\ UNCHANGED <<touchStartX, touchSteps>>

DotClick(idx) == DotClickOn(idx, TRUE)

\* ModalOverlay onClick={onClose}
OverlayClick ==
    /\ Rendered(isOpen, itemCount)
    /\ Handled("overlay", 0, "", 0, <<Call("onClose", 0)>>)
    /\ UNCHANGED <<touchStartX, touchSteps>>

\* the owner opens the viewer and supplies currentIndex
Open(idx) ==
    /\ viewerMounted /\ ~isOpen
    /\ isOpen' = TRUE
    /\ currentIndex' = idx
    /\ shownIndex' = idx
    /\ lastEvent' = Event("open", idx, "", 0)
    /\ prevEvent' = [step |-> lastEvent.step, pre |-> lastEvent.pre]
    /\ calls' = <<>>
    /\ ListenerEffects
    /\ UNCHANGED <<props, touchStartX, touchSteps, viewerMounted, mapVars>>

\* the viewer is unmounted: the cleanups of both effects run
ViewerUnmount ==
    /\ viewerMounted
    /\ viewerMounted' = FALSE
    /\ keyListeners' = keyListeners - KeyCleanup(keyListeners)
    /\ wheelListeners' = wheelListeners - WheelCleanup(wheelListeners)
    /\ UNCHANGED <<isOpen, currentIndex, shownIndex, props, touchStartX,
                   touchSteps, lastEvent, prevEvent, calls, mapVars>>

Next ==
    \/ \E deltaY \in WheelDeltas : Wheel(deltaY)
    \/ \E x \in TouchXs : TouchStart(x)
    \/ \E x \in TouchXs : TouchMove(x)
    \/ TouchEnd
    \/ \E key \in Keys : KeyDown(key)
    \/ \E idx \in Indices(itemCount) : DotClick(idx)
    \/ OverlayClick
    \/ \E idx \in Indices(itemCount) : Open(idx)
    \/ ViewerUnmount

Spec == Init /\ [][Next]_vars

\* ----------------------------------------------- changeIndexBy on its own
\* changeIndexBy(delta) applied to arbitrary integer deltas, the owner
\* applying every reported index
StepInit ==
    /\ ViewerInit
    /\ isOpen = TRUE
    /\ itemCount >= 1
    /\ NoMap

StepBy(delta) ==
    /\ Handled("step", delta, "", delta, Steps(delta))
    /\ UNCHANGED <<touchStartX, touchSteps>>

StepNext == \E delta \in (0 - MaxDelta)..MaxDelta : StepBy(delta)

SpecStep == StepInit /\ [][StepNext]_vars

\* ------------------------------------------ events ahead of the re-render
\* the handlers stay those of the last committed render until React has
\* re-rendered the component with the owner's new currentIndex and re-run
\* the listener effects; further events may be dispatched before that
Commit ==
    /\ viewerMounted
    /\ shownIndex # currentIndex
    /\ shownIndex' = currentIndex
    /\ UNCHANGED <<isOpen, currentIndex, props, touchStartX, touchSteps,
                   lastEvent, prevEvent, calls, viewerMounted, mapVars>>
    /\ ListenerEffects

AsyncNext ==
    \/ \E deltaY \in WheelDeltas : WheelOn(deltaY, FALSE)
    \/ \E x \in TouchXs : TouchStartOn(x, FALSE)
    \/ \E x \in TouchXs : TouchMoveOn(x, FALSE)
    \/ TouchEndOn(FALSE)
    \/ \E key \in Keys : KeyDownOn(key, FALSE)
    \/ \E idx \in Indices(itemCount) : DotClickOn(idx, FALSE)
    \/ OverlayClick
    \/ \E idx \in Indices(itemCount) : Open(idx)
    \/ Commit

SpecAsync == Init /\ [][AsyncNext]_vars

\* ---------------------------------------------------------- map: actions
IsContainer == comp = "ZoomableMapContainer"

\* the sizes of the two observed elements; an element that was removed from
\* the document has no box
ObservedSize ==
    IF remounted THEN <<0, 0, 0, 0>>
    ELSE <<actual.c.width, actual.c.height, actual.i.width, actual.i.height>>

\* the observer has a notification to deliver
RoActive == roObserving /\ ObservedSize # roLast

\* update(): container is the element the effect captured, img the element
\* mapImageRef points to now; both setters are called, and setImageLayout
\* always gets a fresh object
Update ==
    LET cRect == IF remounted THEN ZeroRect ELSE actual.c
        layout == ImageLayoutOf(cRect, actual.i)
    IN  /\ containerWidth' = cRect.width
        /\ imageLayout' = layout
        /\ lastEmit' = IF cRect.width = containerWidth /\ layout = imageLayout
                       THEN "duplicate" ELSE "changed"
        /\ measured' = IF remounted THEN NoGeom ELSE actual

\* the hint effect: if (isMobile || isTablet) { setShowHint(true); setTimeout }
HintEffect(touch) ==
    IF touch
    THEN showHint' = TRUE /\ timerPending' = TRUE /\ timerFired' = FALSE
    ELSE timerPending' = FALSE /\ UNCHANGED <<showHint, timerFired>>

\* first render and the effects that follow it
MapMount ==
    /\ mapState = "unmounted"
    /\ IF RenderThrows(comp, Touch(tier), mapProps)
       THEN /\ mapState' = "crashed"
            /\ UNCHANGED <<showHint, timerPending, timerFired, containerWidth,
                           imageLayout, roObserving, roLast, renderPending,
                           measured, lastEmit>>
       ELSE /\ mapState' = "mounted"
            /\ HintEffect(Touch(tier))
            /\ IF IsContainer
               THEN /\ Update
                    /\ roObserving' = TRUE
                    /\ roLast' = <<0, 0, 0, 0>>
                    /\ renderPending' = TRUE
               ELSE /\ renderPending' = Touch(tier)
                    /\ UNCHANGED <<containerWidth, imageLayout, roObserving,
                                   roLast, measured, lastEmit>>
    /\ UNCHANGED <<comp, tier, mapProps, mapConfig, actual, remounted,
                   viewerVars>>

\* new ResizeObserver(() => update())
RoCallback ==
    /\ RoActive
    /\ roLast' = ObservedSize
    /\ Update
    /\ renderPending' = TRUE
    /\ UNCHANGED <<comp, tier, mapProps, mapConfig, mapState, showHint,
                   timerPending, timerFired, actual, remounted, roObserving,
                   viewerVars>>

\* a re-render after a state update: MapContent is a new component type in
\* every render, so its elements are unmounted and new ones are created
MapRender ==
    /\ mapState = "mounted" /\ renderPending
    /\ renderPending' = FALSE
    /\ remounted' = TRUE
    /\ UNCHANGED <<comp, tier, mapProps, mapConfig, mapState, showHint,
                   timerPending, timerFired, actual, containerWidth,
                   imageLayout, roObserving, roLast, measured, lastEmit,
                   viewerVars>>

\* the elements on screen are laid out differently (window resize, zoom, ...)
MapResize(g) ==
    /\ mapState = "mounted" /\ IsContainer
    /\ g # actual
    /\ actual' = g
    /\ UNCHANGED <<comp, tier, mapProps, mapConfig, mapState, showHint,
                   timerPending, timerFired, containerWidth, imageLayout,
                   remounted, roObserving, roLast, renderPending, measured,
                   lastEmit, viewerVars>>

\* setTimeout(() => setShowHint(false), 3000)
HintTimeout ==
    /\ timerPending
    /\ timerPending' = FALSE
    /\ timerFired' = TRUE
    /\ showHint' = FALSE
    /\ renderPending' = TRUE
    /\ UNCHANGED <<comp, tier, mapProps, mapConfig, mapState, actual,
                   containerWidth, imageLayout, remounted, roObserving, roLast,
                   measured, lastEmit, viewerVars>>

\* return () => ro.disconnect()
DisconnectMissing(observing) == observing
Disconnect(observing) == FALSE

\* useDevice() reports another tier: the component re-renders, the cleanup of
\* the hint effect runs (clearTimeout) and the effect runs again; a render
\* that throws unmounts the component, which runs every cleanup
TierChange(t) ==
    /\ mapState = "mounted"
    /\ t # tier
    /\ tier' = t
    /\ IF RenderThrows(comp, Touch(t), mapProps)
       THEN /\ mapState' = "crashed"
            /\ timerPending' = FALSE
            /\ roObserving' = Disconnect(roObserving)
            /\ renderPending' = FALSE
            /\ UNCHANGED <<showHint, timerFired, remounted>>
       ELSE /\ HintEffect(Touch(t))
            /\ remounted' = TRUE
            /\ renderPending' = (Touch(t) /\ ~showHint)
            /\ UNCHANGED <<mapState, roObserving>>
    /\ UNCHANGED <<comp, mapProps, mapConfig, actual, containerWidth,
                   imageLayout, roLast, measured, lastEmit, viewerVars>>

\* unmount: the cleanups of both effects run
MapUnmount ==
    /\ mapState = "mounted"
    /\ mapState' = "disposed"
    /\ roObserving' = Disconnect(roObserving)
    /\ timerPending' = FALSE
    /\ renderPending' = FALSE
    /\ UNCHANGED <<comp, tier, mapProps, mapConfig, showHint, timerFired,
                   actual, containerWidth, imageLayout, remounted, roLast,
                   measured, lastEmit, viewerVars>>

\* a map component about to be rendered by its owner
MapStart ==
    /\ comp \in Comps
    /\ tier \in Tiers
    /\ mapProps \in MapPropSets
    /\ mapConfig \in IF IsContainer THEN MapConfigs
                     ELSE {[scale10 |-> 10, baseWidth |-> 200, min10 |-> 5,
                            max10 |-> 15]}
    /\ mapState = "unmounted"
    /\ showHint = FALSE
    /\ timerPending = FALSE
    /\ timerFired = FALSE
    /\ actual \in IF IsContainer THEN Geoms ELSE {FirstGeom}
    /\ containerWidth = 0
    /\ imageLayout = ZeroLayout
    /\ remounted = FALSE
    /\ roObserving = FALSE
    /\ roLast = <<0, 0, 0, 0>>
    /\ renderPending = FALSE
    /\ measured = NoGeom
    /\ lastEmit = "none"

\* no viewer is in use: a closed viewer without images
NoViewer ==
    /\ ViewerInit
    /\ ~isOpen /\ itemCount = 0
    /\ hasOnIndexChange /\ hasOnPrevious /\ hasOnNext

MapInit == NoViewer /\ MapStart

MapNext ==
    \/ MapMount
    \/ RoCallback
    \/ MapRender
    \/ \E g \in Geoms : MapResize(g)
    \/ HintTimeout
    \/ \E t \in Tiers : TierChange(t)
    \/ MapUnmount

SpecMap == MapInit /\ [][MapNext]_vars

\* ------------------------------------------------------------------ claims
InRange(i) == i >= 0 /\ i <= itemCount - 1

Reported == {calls[i] : i \in 1..Len(calls)}

\* C1: with at least one item and the owner applying every index reported
\* through onIndexChange, currentIndex stays in [0, itemCount-1] after any
\* sequence of wheel, swipe and keyboard steps, and every reported index is
\* in that range.
C1_IndexInRange ==
    (itemCount >= 1 /\ hasOnIndexChange) =>
        /\ InRange(currentIndex)
        /\ \A c \in Reported : c.cb = "onIndexChange" => InRange(c.arg)

C1_Witness ==
    /\ itemCount >= 2 /\ hasOnIndexChange
    /\ lastEvent.kind = "touchmove" /\ lastEvent.step # 0
    /\ prevEvent.step # 0
    /\ currentIndex # lastEvent.pre

\* C2: for every integer delta and every currentIndex, changeIndexBy(delta)
\* reports the mathematical residue of currentIndex + delta modulo itemCount.
C2_ReportsResidue ==
    (lastEvent.kind = "step" /\ hasOnIndexChange) =>
        calls = <<Call("onIndexChange",
                       Residue(lastEvent.pre + lastEvent.arg, itemCount))>>

\* C3: step(1) followed by step(-1), the owner applying each reported index,
\* restores the index the first step started from.
C3_RoundTrip ==
    (itemCount >= 1 /\ hasOnIndexChange
        /\ prevEvent.step = 1 /\ lastEvent.step = -1) =>
        currentIndex = prevEvent.pre

C3_Witness ==
    /\ itemCount = 3 /\ hasOnIndexChange
    /\ prevEvent.step = 1 /\ prevEvent.pre = 2
    /\ lastEvent.step = -1 /\ lastEvent.pre = 0
    /\ currentIndex = 2

\* C4: navigation wraps around: step(-1) from index 0 yields itemCount-1 and
\* step(1) from index itemCount-1 yields 0.
C4_WrapAround ==
    (itemCount >= 1 /\ hasOnIndexChange) =>
        /\ (lastEvent.step = -1 /\ lastEvent.pre = 0) =>
              /\ calls = <<Call("onIndexChange", itemCount - 1)>>
              /\ currentIndex = itemCount - 1
        /\ (lastEvent.step = 1 /\ lastEvent.pre = itemCount - 1) =>
              /\ calls = <<Call("onIndexChange", 0)>>
              /\ currentIndex = 0

C4_Witness ==
    /\ itemCount = 3 /\ hasOnIndexChange
    /\ lastEvent.step = -1 /\ lastEvent.pre = 0
    /\ currentIndex = 2

C6_LegacyJumpSingleStep ==
    (lastEvent.kind = "dot" /\ ~hasOnIndexChange) =>
        /\ Len(calls) <= 1
        /\ (hasOnPrevious /\ hasOnNext) =>
              calls = IF lastEvent.arg > lastEvent.pre
                          THEN <<Call("onNext", 0)>>
                      ELSE IF lastEvent.arg < lastEvent.pre
                          THEN <<Call("onPrevious", 0)>>
                      ELSE <<>>

C6_Witness ==
    /\ lastEvent.kind = "dot" /\ ~hasOnIndexChange
    /\ hasOnPrevious /\ hasOnNext
    /\ lastEvent.arg = lastEvent.pre + 2
    /\ calls = <<Call("onNext", 0)>>

\* C7: a wheel event issues step(1) exactly when deltaY > 0 and step(-1)
\* exactly when deltaY < 0, and only while the viewer is open with more than
\* one item; otherwise it causes no callback and no index change.
C7_WheelSteps ==
    lastEvent.kind = "wheel" =>
        LET active == lastEvent.preOpen /\ itemCount > 1
        IN  /\ lastEvent.step = 1 <=> (active /\ lastEvent.arg > 0)
            /\ lastEvent.step = -1 <=> (active /\ lastEvent.arg < 0)
            /\ ~active => (calls = <<>> /\ currentIndex = lastEvent.pre)

\* C8: a touch-move whose horizontal displacement from the touch-start
\* position is at most the 50-unit threshold in absolute value, and every
\* touch-start and touch-end, changes no index and invokes no callback.
C8_BelowThresholdNoStep ==
    /\ (lastEvent.kind = "touchmove" /\ lastEvent.preStart # NoTouch
          /\ Abs(lastEvent.preStart - lastEvent.arg) <= SwipeThreshold) =>
          /\ calls = <<>> /\ lastEvent.step = 0
          /\ currentIndex = lastEvent.pre
          /\ touchStartX = lastEvent.preStart
    /\ lastEvent.kind \in {"touchstart", "touchend"} =>
          (calls = <<>> /\ currentIndex = lastEvent.pre)

C8_Witness ==
    /\ lastEvent.kind = "touchmove" /\ lastEvent.preStart # NoTouch
    /\ Abs(lastEvent.preStart - lastEvent.arg) = SwipeThreshold
    /\ itemCount >= 2 /\ calls = <<>>

\* C9: between a touch-start and the next touch-start at most one step is
\* issued: the first touch-move displaced by more than 50 issues one step of
\* +1 or -1 by the direction of the displacement and resets the gesture, and
\* a touch-move on a reset gesture issues no step.
C9_OneStepPerTouch ==
    /\ touchSteps <= 1
    /\ (lastEvent.kind = "touchmove" /\ lastEvent.preStart # NoTouch
          /\ Abs(lastEvent.preStart - lastEvent.arg) > SwipeThreshold) =>
          /\ lastEvent.step =
                (IF lastEvent.arg < lastEvent.preStart THEN 1 ELSE -1)
          /\ Len(calls) <= 1
          /\ touchStartX = NoTouch
          /\ touchSteps = 1
    /\ (lastEvent.kind = "touchmove" /\ lastEvent.preStart = NoTouch) =>
          (lastEvent.step = 0 /\ calls = <<>>)

C9_Witness ==
    /\ touchSteps = 1
    /\ lastEvent.kind = "touchmove" /\ lastEvent.preStart = NoTouch
    /\ prevEvent.step # 0
    /\ itemCount >= 2

\* what one step of d from the index the event found must invoke
C10_StepOf(d) ==
    IF itemCount = 0 THEN <<>>
    ELSE IF hasOnIndexChange
        THEN <<Call("onIndexChange", Residue(lastEvent.pre + d, itemCount))>>
    ELSE IF d < 0 /\ hasOnPrevious THEN <<Call("onPrevious", 0)>>
    ELSE IF d > 0 /\ hasOnNext THEN <<Call("onNext", 0)>>
    ELSE <<>>

\* C10: while the viewer is open ArrowLeft issues exactly step(-1),
\* ArrowRight exactly step(1) and Escape exactly one onClose() with no index
\* change and no navigation callback; any other key, and any key while the
\* viewer is closed, invokes no callback.
C10_Keyboard ==
    lastEvent.kind = "keydown" =>
        IF ~lastEvent.preOpen
            THEN calls = <<>> /\ lastEvent.step = 0
                 /\ currentIndex = lastEvent.pre
        ELSE IF lastEvent.key = "ArrowLeft"
            THEN lastEvent.step = -1 /\ calls = C10_StepOf(-1)
        ELSE IF lastEvent.key = "ArrowRight"
            THEN lastEvent.step = 1 /\ calls = C10_StepOf(1)
        ELSE IF lastEvent.key = "Escape"
            THEN calls = <<Call("onClose", 0)>> /\ lastEvent.step = 0
                 /\ currentIndex = lastEvent.pre
        ELSE calls = <<>> /\ lastEvent.step = 0
             /\ currentIndex = lastEvent.pre

C10_Witness ==
    /\ lastEvent.kind = "keydown" /\ lastEvent.key = "Escape"
    /\ lastEvent.preOpen /\ ~isOpen
    /\ calls = <<Call("onClose", 0)>>
    /\ itemCount >= 2

\* C11: with no items every input channel is a no-op: none of onIndexChange,
\* onPrevious, onNext is invoked, no index is reported or changed, and the
\* viewer renders nothing even when isOpen is true.
C11_EmptyNoOp ==
    itemCount = 0 =>
        /\ \A c \in Reported :
              c.cb \notin {"onIndexChange", "onPrevious", "onNext"}
        /\ lastEvent.kind # "none" => currentIndex = lastEvent.pre
        /\ lastEvent.kind \notin
              {"touchstart", "touchmove", "touchend", "dot", "overlay"}
        /\ lastEvent.kind = "wheel" => lastEvent.step = 0
        /\ ~Rendered(isOpen, itemCount)

C11_Witness ==
    /\ itemCount = 0 /\ isOpen
    /\ lastEvent.kind = "keydown" /\ lastEvent.key = "ArrowRight"
    /\ lastEvent.step = 1 /\ lastEvent.preOpen
    /\ hasOnIndexChange /\ calls = <<>>

\* C12: every event is processed against the index that is current when it
\* arrives, also when it arrives right after an earlier event's index change:
\* a step of d reports the residue of (currentIndex at arrival) + d, so n
\* steps of +1 advance the index by n modulo itemCount.
C12_StepsFromCurrentIndex ==
    (itemCount >= 1 /\ hasOnIndexChange /\ lastEvent.step # 0) =>
        /\ calls = <<Call("onIndexChange",
                          Residue(lastEvent.pre + lastEvent.step, itemCount))>>
        /\ currentIndex = Residue(lastEvent.pre + lastEvent.step, itemCount)

C14_ScaleBoundedMonotone ==
    (IsContainer /\ containerWidth > 0) =>
        LET sc == ResponsiveScale(containerWidth, mapConfig)
        IN  /\ FracLeq(<<mapConfig.min10, 10>>, sc)
            /\ FracLeq(sc, <<mapConfig.max10, 10>>)
            /\ \A g \in Geoms :
                  /\ g.c.width <= containerWidth =>
                        FracLeq(ResponsiveScale(g.c.width, mapConfig), sc)
                  /\ g.c.width >= containerWidth =>
                        FracLeq(sc, ResponsiveScale(g.c.width, mapConfig))

C14_Witness ==
    /\ IsContainer /\ mapState = "mounted"
    /\ containerWidth = 220 /\ mapConfig.baseWidth = 200
    /\ ResponsiveScale(containerWidth, mapConfig) = <<2200, 2000>>

\* C15: an icon at (x%, y%) is placed at imageOffset + (percent/100) * image
\* size: after a measurement an icon at (0,0) lies on the image's corner and
\* one at (100,100) on the opposite corner; before the first measurement all
\* icons lie at the origin; for an image of 200 x 100 at offset (10, 5) the
\* icons at (0,0) and (100,100) lie at (10,5) and (210,105).
C15_IconPositions ==
    /\ imageLayout = ZeroLayout =>
          \A icon \in Icons :
              IconPixel(icon, imageLayout) = [x100 |-> 0, y100 |-> 0]
    /\ measured # NoGeom =>
          /\ IconPixel([x |-> 0, y |-> 0], imageLayout) =
                [x100 |-> 100 * (measured.i.left - measured.c.left),
                 y100 |-> 100 * (measured.i.top - measured.c.top)]
          /\ IconPixel([x |-> 100, y |-> 100], imageLayout) =
                [x100 |-> 100 * (measured.i.left - measured.c.left
                                    + measured.i.width),
                 y100 |-> 100 * (measured.i.top - measured.c.top
                                    + measured.i.height)]
    /\ measured = FirstGeom =>
          /\ IconPixel([x |-> 0, y |-> 0], imageLayout) =
                [x100 |-> 1000, y100 |-> 500]
          /\ IconPixel([x |-> 100, y |-> 100], imageLayout) =
                [x100 |-> 21000, y100 |-> 10500]

C15_Witness ==
    /\ IsContainer /\ mapState = "mounted"
    /\ measured = FirstGeom
    /\ imageLayout = [width |-> 200, height |-> 100, offsetLeft |-> 10,
                      offsetTop |-> 5]

\* ------------------------------------------- a viewer and a map together
\* a page that shows a map container and a gallery viewer
ViewsInit ==
    /\ ViewerInit
    /\ itemCount \in {1, 2}
    /\ hasOnIndexChange /\ ~hasOnPrevious /\ ~hasOnNext
    /\ MapStart
    /\ IsContainer
    /\ mapProps = [enableZoom |-> FALSE, enablePan |-> TRUE, minScale |-> 5,
                   maxScale |-> 30, initialScale |-> 10]
    /\ mapConfig.baseWidth = 200
    /\ actual = FirstGeom

\* the events that reach a subscription or change one: touch events are
\* delivered through React props and never re-run an effect
ViewsNext ==
    \/ \E deltaY \in WheelDeltas : Wheel(deltaY)
    \/ \E key \in Keys : KeyDown(key)
    \/ \E idx \in Indices(itemCount) : DotClick(idx)
    \/ OverlayClick
    \/ \E idx \in Indices(itemCount) : Open(idx)
    \/ ViewerUnmount
    \/ MapNext

SpecViews == ViewsInit /\ [][ViewsNext]_vars

\* C16: a mounted viewer has exactly one keydown listener and at most one
\* wheel listener registered (one exactly when the wheel binding applies);
\* after unmount none is registered; a map that is not mounted has no
\* resize observation and no pending timer, so no callback can run after
\* the owning view is disposed.
C16_SubscriptionsReleased ==
    /\ viewerMounted =>
          /\ keyListeners = 1
          /\ wheelListeners = IF WheelBound(isOpen, itemCount) THEN 1 ELSE 0
    /\ ~viewerMounted => (keyListeners = 0 /\ wheelListeners = 0)
    /\ mapState # "mounted" => (~roObserving /\ ~RoActive /\ ~timerPending)

C16_Witness ==
    /\ ~viewerMounted /\ mapState = "disposed"
    /\ lastEvent.kind = "keydown" /\ Len(calls) > 0
    /\ measured # NoGeom /\ timerFired

\* C17: on a touch tier the hint is shown on activation and hidden once the
\* timer has fired; no timer is pending once the component is torn down; on
\* a pointer-only tier no timer is pending and the hint is not visible.
C17_HintTimer ==
    /\ (mapState \in {"mounted", "crashed"} /\ Touch(tier)) =>
          \/ showHint /\ timerPending /\ ~timerFired
          \/ ~showHint /\ ~timerPending /\ timerFired
    /\ mapState # "mounted" => ~timerPending
    /\ ~Touch(tier) =>
          (~timerPending /\ ~HintVisible(Touch(tier), mapProps, showHint))

\* the same for a component whose render did not throw
C17_HintTimerWhenRendered ==
    /\ (mapState = "mounted" /\ Touch(tier)) =>
          \/ showHint /\ timerPending /\ ~timerFired
          \/ ~showHint /\ ~timerPending /\ timerFired
    /\ mapState # "mounted" => ~timerPending
    /\ ~Touch(tier) =>
          (~timerPending /\ ~HintVisible(Touch(tier), mapProps, showHint))

\* C18: no duplicate snapshot is emitted: update() changes the stored
\* geometry only when one of container width, image width, image height and
\* the image offsets differs from the stored one.
C18_NoDuplicateSnapshot == lastEmit # "duplicate"

\* C19: while the view is mounted the observer observes the elements that
\* are rendered, and once every notification and re-render has been
\* processed the stored geometry is that of the elements on screen.
C19_ObservesRenderedElements ==
    (mapState = "mounted" /\ IsContainer) =>
        /\ roObserving /\ ~remounted
        /\ (~RoActive /\ ~renderPending) =>
              /\ containerWidth = actual.c.width
              /\ imageLayout = ImageLayoutOf(actual.c, actual.i)
====
